---- MODULE Spec2Model ----
(***************************************************************************)
(* The plan scheduler and execution loop of nodes.py / workflow.py:        *)
(* select_node -> run_node -> resolve_data -> should_continue, over a plan  *)
(* produced by the planner.  The reasoning collaborator (the *_chain       *)
(* objects) and the relational engine (sqlite3) are the environment: each  *)
(* call returns one value of a small set, or raises.                       *)
(***************************************************************************)
EXTENDS Integers, Sequences, FiniteSets, TLC

VARIABLES plan, node_status, artifacts, current_node_id, last_output,
          executed_queries, total_attempts, issues, analyzer_payload, pc

vars == <<plan, node_status, artifacts, current_node_id, last_output,
          executed_queries, total_attempts, issues, analyzer_payload, pc>>

(* ------------------------------ bounds --------------------------------- *)

\* Largest number of nodes of a plan whose node specifications are enumerated.
MaxNodes == 2

\* Largest number of precedence edges of such a plan.
MaxEdges == 1

(* ---------------------------- constants -------------------------------- *)

\* The safety cap of should_continue.
MaxAttempts == 20

None == "None"

\* Node ids, in the order the planner declares them; Ghost is an id that
\* edges may name although no node of the plan carries it.
NodeNames ==
  <<"n1", "n2", "n3", "n4", "n5", "n6", "n7", "n8", "n9", "n10", "n11",
    "n12", "n13", "n14", "n15", "n16", "n17", "n18", "n19", "n20", "n21",
    "n22">>
Ghost == "n0"

(* --------------------- strings the code inspects ----------------------- *)
\* A string is a sequence of tokens, so that prefix and containment tests
\* are computed and not assumed.

Lower(tok) ==
  CASE tok = "Result" -> "result"
    [] tok = "SQL" -> "sql"
    [] tok = "SELECT" -> "select"
    [] OTHER -> tok

Upper(tok) ==
  CASE tok = "select" -> "SELECT"
    [] tok = "sql" -> "SQL"
    [] tok = "analyzer" -> "ANALYZER"
    [] OTHER -> tok

StartsWith(s, prefix) ==
  /\ Len(s) >= Len(prefix)
  /\ \A i \in 1..Len(prefix) : s[i] = prefix[i]

LowerStr(s) == [i \in 1..Len(s) |-> Lower(s[i])]

\* str.strip(): leading and trailing blanks removed.
RECURSIVE LStrip(_)
LStrip(s) == IF s # <<>> /\ Head(s) = " " THEN LStrip(Tail(s)) ELSE s

RECURSIVE RStrip(_)
RStrip(s) ==
  IF s # <<>> /\ s[Len(s)] = " " THEN RStrip(SubSeq(s, 1, Len(s) - 1)) ELSE s

Strip(s) == RStrip(LStrip(s))

\* Artifact names.
SqlA == <<"sql", "_", "a">>
ResultA == <<"result", "_", "a">>
SummaryA == <<"summary", "_", "a">>
SqlB == <<"sql", "_", "b">>
ResultB == <<"result", "_", "b">>
ResultsB == <<"result", "s">>

\* Statement texts the SQL collaborator may return.
SelectStmt == <<"select", "c", "from", "t">>
UpdateStmt == <<"UPDATE", "t">>
InsertSelectStmt == <<"INSERT", "into", "t", "SELECT", "c">>
PaddedSelectStmt == <<" ", "SELECT", "c", "from", "t", " ">>

\* Mutation: the last name with the prefix is taken.
LastPrefixed(names, prefix, fold) ==
  LET Hit(i) == StartsWith(IF fold THEN LowerStr(names[i]) ELSE names[i], prefix)
  IN IF \E i \in 1..Len(names) : Hit(i)
       THEN CHOOSE i \in 1..Len(names) :
              Hit(i) /\ \A j \in (i + 1)..Len(names) : ~Hit(j)
       ELSE 0

\* next((p for p in names if p.startswith(prefix)), None), as the index of
\* the first such name, 0 for None; fold lowers the name first.
FirstPrefixed(names, prefix, fold) ==
  LET Hit(i) == StartsWith(IF fold THEN LowerStr(names[i]) ELSE names[i], prefix)
  IN IF \E i \in 1..Len(names) : Hit(i)
       THEN CHOOSE i \in 1..Len(names) :
              Hit(i) /\ \A j \in 1..(i - 1) : ~Hit(j)
       ELSE 0

\* Mutation: the store is replaced by the new mapping.
DictReplace(d, new) == new

\* Mutation: the left operand wins on a shared key.
DictUpdateKeepOld(d, new) ==
  [k \in (DOMAIN d) \cup (DOMAIN new) |->
     IF k \in DOMAIN d THEN d[k] ELSE new[k]]

\* Mutation: a shared key collects both values.
DictUpdateAccumulate(d, new) ==
  [k \in (DOMAIN d) \cup (DOMAIN new) |->
     IF k \in DOMAIN d
       THEN (IF k \in DOMAIN new THEN [old |-> d[k], new |-> new[k]] ELSE d[k])
       ELSE new[k]]

\* dict.update: the right operand wins on a shared key.
DictUpdate(d, new) ==
  [k \in (DOMAIN d) \cup (DOMAIN new) |->
     IF k \in DOMAIN new THEN new[k] ELSE d[k]]

EmptyDict == [k \in {} |-> None]

(* ------------------------- plan navigation ----------------------------- *)

NodeStatusDefault == [state |-> "pending", attempts |-> 0, last_error |-> None]

PlanNodeIds(p) == {p.nodes[i].id : i \in 1..Len(p.nodes)}

\* Mutation: an id the table does not hold is read as succeeded.
StatusGetSucceeded(status, id) ==
  IF id \in DOMAIN status THEN status[id]
  ELSE [state |-> "succeeded", attempts |-> 0, last_error |-> None]

\* state.node_status.get(id, NodeStatus())
StatusGet(status, id) ==
  IF id \in DOMAIN status THEN status[id] ELSE NodeStatusDefault

_get_predecessors(p, node_id) == {e[1] : e \in {x \in p.edges : x[2] = node_id}}

\* Mutation: a predecessor that has finished, in whatever state, counts.
PredecessorsFinished(status, p, node_id) ==
  \A q \in _get_predecessors(p, node_id) :
     StatusGet(status, q).state \in {"succeeded", "failed"}

\* Mutation: a predecessor counts unless it has failed.
PredecessorsNotFailed(status, p, node_id) ==
  \A q \in _get_predecessors(p, node_id) :
     StatusGet(status, q).state # "failed"

_are_predecessors_succeeded(status, p, node_id) ==
  \A q \in _get_predecessors(p, node_id) :
     StatusGet(status, q).state = "succeeded"

\* Mutation: the requires list is not consulted.
RequirementsIgnored(store, node) ==
  TRUE

\* Mutation: a node that requires anything is never ready.
RequirementsNeverMet(store, node) ==
  node.requires = <<>>

_are_requirements_met(store, node) ==
  \A i \in 1..Len(node.requires) : node.requires[i] \in DOMAIN store

\* Mutation: a failed node is a candidate again.
PendingOrFailed(status, node_id) ==
  StatusGet(status, node_id).state \in {"pending", "failed"}

\* Mutation: every node that has not failed is a candidate.
NotFailed(status, node_id) ==
  StatusGet(status, node_id).state # "failed"

\* Lines 106-107: only a pending node is a candidate.
IsPending(status, node_id) ==
  StatusGet(status, node_id).state = "pending"

\* The runnable nodes of the plan, in declaration order.
RECURSIVE RunnableFrom(_, _, _, _)
RunnableFrom(p, status, store, i) ==
  IF i > Len(p.nodes) THEN <<>>
  ELSE LET node == p.nodes[i]
           rest == RunnableFrom(p, status, store, i + 1)
       IN IF /\ IsPending(status, node.id)
             /\ _are_predecessors_succeeded(status, p, node.id)
             /\ _are_requirements_met(store, node)
            THEN <<node>> \o rest
            ELSE rest

_get_runnable_nodes(p, status, store) == RunnableFrom(p, status, store, 1)

Runnable == _get_runnable_nodes(plan, node_status, artifacts)

\* next(n for n in state.plan["nodes"] if n["id"] == node_id)
NodeById(p, node_id) ==
  p.nodes[CHOOSE i \in 1..Len(p.nodes) :
            /\ p.nodes[i].id = node_id
            /\ \A j \in 1..(i - 1) : p.nodes[j].id # node_id]

(* ------------------------- the environment ----------------------------- *)

\* json.loads(out.outputs), JSONDecodeError caught: an undecodable text is
\* the empty mapping; a decodable one is whatever it encodes (a mapping or
\* some other JSON value).
JsonLoads(outputs) ==
  IF outputs.valid
    THEN [isdict |-> outputs.isdict, map |-> outputs.map]
    ELSE [isdict |-> TRUE, map |-> EmptyDict]

BadJson == [valid |-> FALSE, isdict |-> FALSE, map |-> EmptyDict]
ListJson == [valid |-> TRUE, isdict |-> FALSE, map |-> EmptyDict]
DictJson(m) == [valid |-> TRUE, isdict |-> TRUE, map |-> m]

JsonValue(v) == [json |-> v]
TextValue(sql) == [text |-> sql]
TableValue(rows) == [columns |-> <<"c">>, rows |-> rows]

\* What the relational engine does with a statement: the database file is
\* missing, the statement raises, or it runs and yields rows / a row count.
EngineNoDb == [db |-> FALSE, raises |-> FALSE, rows |-> <<>>, rowcount |-> 0]
EngineError == [db |-> TRUE, raises |-> TRUE, rows |-> <<>>, rowcount |-> 0]
EngineRows0 == [db |-> TRUE, raises |-> FALSE, rows |-> <<>>, rowcount |-> 0]
EngineRows1 == [db |-> TRUE, raises |-> FALSE, rows |-> <<<<1>>>>, rowcount |-> 2]

\* Mutation: a statement that contains SELECT anywhere is a query.
IsSelectAnywhere(sql) == \E i \in 1..Len(sql) : Upper(sql[i]) = "SELECT"

\* sql.strip().upper().startswith("SELECT")
IsSelect(sql) ==
  LET t == Strip(sql) IN Len(t) > 0 /\ Upper(t[1]) = "SELECT"

\* Mutation: an engine failure is reported without the engine's text.
ExecSqliteGenericError(sql, engine) ==
  IF ~engine.db \/ engine.raises
    THEN [status |-> "fail", error |-> "SQL execution failed",
          result |-> {}, stats |-> {}]
  ELSE IF IsSelect(sql)
    THEN [status |-> "ok", error |-> None,
          result |-> {TableValue(engine.rows)},
          stats |-> {Len(engine.rows)}]
    ELSE [status |-> "ok", error |-> None,
          result |-> {},
          stats |-> {engine.rowcount}]

_exec_sqlite(sql, engine) ==
  IF ~engine.db
    THEN [status |-> "fail", error |-> "Database path not found",
          result |-> {}, stats |-> {}]
  ELSE IF engine.raises
    THEN [status |-> "fail", error |-> "engine error",
          result |-> {}, stats |-> {}]
  ELSE IF IsSelect(sql)
    THEN [status |-> "ok", error |-> None,
          result |-> {TableValue(engine.rows)},
          stats |-> {Len(engine.rows)}]
    ELSE [status |-> "ok", error |-> None,
          result |-> {},
          stats |-> {engine.rowcount}]

(* ------------------------------ actions -------------------------------- *)

NoOutput == [status |-> None, artifacts |-> [isdict |-> TRUE, map |-> EmptyDict],
             stats |-> {}, error |-> None]

\* Truth value of state.last_output: None before the first execution, a
\* non-empty dict afterwards.
Truthy(output) == output.status # None

\* Mutation: a failure puts the node back to pending, to be tried again.
SetStateRetry(status, node_id, new_state, error) ==
  [status EXCEPT
     ![node_id].state = IF new_state = "failed" THEN "pending" ELSE new_state,
     ![node_id].last_error = error]

\* Mutation: the error message is not recorded.
SetStateDropsError(status, node_id, new_state, error) ==
  [status EXCEPT ![node_id].state = new_state]

\* Mutation: a success leaves the node in the state it had.
SetStateLeavesRunning(status, node_id, new_state, error) ==
  [status EXCEPT
     ![node_id].state = IF new_state = "succeeded" THEN @ ELSE new_state,
     ![node_id].last_error = error]

SetState(status, node_id, new_state, error) ==
  [status EXCEPT ![node_id].state = new_state, ![node_id].last_error = error]

\* Mutation: looking up an edge source registers it in the status table.
select_node_registers ==
  /\ pc = "select"
  /\ current_node_id' = IF Runnable # <<>> THEN Runnable[1].id ELSE None
  /\ node_status' =
       [id \in DOMAIN node_status \cup {x[1] : x \in plan.edges} |->
          StatusGet(node_status, id)]
  /\ pc' = "run"
  /\ UNCHANGED <<plan, artifacts, last_output, executed_queries,
                 total_attempts, issues, analyzer_payload>>

\* Mutation: when nothing is runnable the first declared node is taken.
select_node_first_declared ==
  /\ pc = "select"
  /\ current_node_id' = IF Runnable # <<>> THEN Runnable[1].id
                         ELSE plan.nodes[1].id
  /\ pc' = "run"
  /\ UNCHANGED <<plan, node_status, artifacts, last_output, executed_queries,
                 total_attempts, issues,
                 analyzer_payload>>

\* Mutation: the last runnable node is taken.
select_node_last ==
  /\ pc = "select"
  /\ current_node_id' = IF Runnable # <<>> THEN Runnable[Len(Runnable)].id
                         ELSE None
  /\ pc' = "run"
  /\ UNCHANGED <<plan, node_status, artifacts, last_output, executed_queries,
                 total_attempts, issues,
                 analyzer_payload>>

select_node ==
  /\ pc = "select"
  /\ current_node_id' = IF Runnable # <<>> THEN Runnable[1].id ELSE None
  /\ pc' = "run"
  /\ UNCHANGED <<plan, node_status, artifacts, last_output, executed_queries,
                 total_attempts, issues,
                 analyzer_payload>>

\* Mutation: the global counter is not incremented.
run_node_start_uncounted ==
  /\ pc = "run"
  /\ IF current_node_id = None
       THEN /\ pc' = "resolve"
            /\ UNCHANGED node_status
       ELSE /\ node_status' =
                 [node_status EXCEPT ![current_node_id].state = "running",
                                     ![current_node_id].attempts = @ + 1]
            /\ pc' = "exec"
  /\ UNCHANGED <<plan, artifacts, current_node_id, last_output,
                 executed_queries, total_attempts, issues,
                 analyzer_payload>>

\* run_node, lines 204-212: nothing selected, or the selected node starts.
run_node_start ==
  /\ pc = "run"
  /\ IF current_node_id = None
       THEN /\ pc' = "resolve"
            /\ UNCHANGED <<node_status, total_attempts>>
       ELSE /\ node_status' =
                 [node_status EXCEPT ![current_node_id].state = "running",
                                     ![current_node_id].attempts = @ + 1]
            /\ total_attempts' = total_attempts + 1
            /\ pc' = "exec"
  /\ UNCHANGED <<plan, artifacts, current_node_id, last_output,
                 executed_queries, issues,
                 analyzer_payload>>

CurrentNode == NodeById(plan, current_node_id)
CurrentType == Upper(CurrentNode.type)

\* Mutation: outputs that do not decode fail the node.
run_analyzer_strict(AnalyzerOuts) ==
  /\ pc = "exec"
  /\ CurrentType = "ANALYZER"
  /\ \E out \in AnalyzerOuts :
       /\ last_output' = [status |-> out.status,
                          artifacts |-> JsonLoads(out.outputs),
                          stats |-> {}, error |-> None]
       /\ node_status' =
            IF out.status = "ok" /\ out.outputs.valid
              THEN SetState(node_status, current_node_id, "succeeded",
                            node_status[current_node_id].last_error)
              ELSE SetState(node_status, current_node_id, "failed",
                            "Analyzer failed with status")
  /\ pc' = "resolve"
  /\ UNCHANGED <<plan, artifacts, current_node_id, executed_queries,
                 total_attempts, issues,
                 analyzer_payload>>

\* run_node, lines 229-245.
run_analyzer(AnalyzerOuts) ==
  /\ pc = "exec"
  /\ CurrentType = "ANALYZER"
  /\ \E out \in AnalyzerOuts :
       /\ last_output' = [status |-> out.status,
                          artifacts |-> JsonLoads(out.outputs),
                          stats |-> {}, error |-> None]
       /\ node_status' =
            IF out.status = "ok"
              THEN SetState(node_status, current_node_id, "succeeded",
                            node_status[current_node_id].last_error)
              ELSE SetState(node_status, current_node_id, "failed",
                            "Analyzer failed with status")
  /\ pc' = "resolve"
  /\ UNCHANGED <<plan, artifacts, current_node_id, executed_queries,
                 total_attempts, issues,
                 analyzer_payload>>

\* Mutation: a table without rows is not written.
SqlArtifactsRowsOnly(node, sql, exec_result) ==
  LET si == FirstPrefixed(node.produces, <<"sql">>, TRUE)
      ri == FirstPrefixed(node.produces, <<"result">>, TRUE)
      with_sql == IF si # 0
                    THEN DictUpdate(EmptyDict,
                           [k \in {node.produces[si]} |-> TextValue(sql)])
                    ELSE EmptyDict
  IN IF /\ ri # 0
        /\ exec_result.status = "ok"
        /\ \E t \in exec_result.result : t.rows # <<>>
       THEN DictUpdate(with_sql,
              [k \in {node.produces[ri]} |->
                 CHOOSE t \in exec_result.result : TRUE])
       ELSE with_sql

\* The artifacts mapping a SQL node builds, lines 256-272.
SqlArtifacts(node, sql, exec_result) ==
  LET si == FirstPrefixed(node.produces, <<"sql">>, TRUE)
      ri == FirstPrefixed(node.produces, <<"result">>, TRUE)
      with_sql == IF si # 0
                    THEN DictUpdate(EmptyDict,
                           [k \in {node.produces[si]} |-> TextValue(sql)])
                    ELSE EmptyDict
  IN IF ri # 0 /\ exec_result.status = "ok" /\ exec_result.result # {}
       THEN DictUpdate(with_sql,
              [k \in {node.produces[ri]} |->
                 CHOOSE t \in exec_result.result : TRUE])
       ELSE with_sql

\* run_node, lines 247-285.
run_sql(SqlOuts, Engines) ==
  /\ pc = "exec"
  /\ CurrentType = "SQL"
  /\ \E sql \in SqlOuts, engine \in Engines :
       LET exec_result == _exec_sqlite(sql, engine)
       IN /\ executed_queries' = Append(executed_queries, sql)
          /\ last_output' =
               [status |-> exec_result.status,
                artifacts |-> [isdict |-> TRUE,
                               map |-> SqlArtifacts(CurrentNode, sql, exec_result)],
                stats |-> exec_result.stats,
                error |-> exec_result.error]
          /\ node_status' =
               IF exec_result.status = "ok"
                 THEN SetState(node_status, current_node_id, "succeeded",
                               node_status[current_node_id].last_error)
                 ELSE SetState(node_status, current_node_id, "failed",
                               exec_result.error)
  /\ pc' = "resolve"
  /\ UNCHANGED <<plan, artifacts, current_node_id, total_attempts, issues,
                 analyzer_payload>>

\* result_key of lines 289-291: the first required name starting "result_".
ResultKeyIndex(node) == FirstPrefixed(node.requires, <<"result", "_">>, FALSE)

\* sql_query_for_result before the loop of lines 305-308.
UnknownQuery == <<"Unknown">>

\* "SELECT" in q.upper()
ContainsSelect(q) == \E i \in 1..Len(q) : Upper(q[i]) = "SELECT"

\* Lines 302-308: the last statement of the log that contains SELECT.
SqlQueryForResult(queries) ==
  LET S == {i \in 1..Len(queries) : ContainsSelect(queries[i])}
  IN IF S = {} THEN UnknownQuery
     ELSE queries[CHOOSE i \in S : \A j \in S : j <= i]

\* analyzer_payload of lines 310-316, as far as it depends on the state:
\* the statement text, the required name and its value in the store.
AnalyzerPayload(node, queries, store) ==
  LET result_key == node.requires[ResultKeyIndex(node)]
  IN [sql_query |-> SqlQueryForResult(queries),
      result_key |-> result_key,
      sql_result |-> IF result_key \in DOMAIN store THEN {store[result_key]}
                     ELSE {}]

\* No summarization call has been made.
NoPayload == [sql_query |-> <<>>, result_key |-> <<>>, sql_result |-> {}]

\* run_node, lines 287-333.
run_sql_result_analyzer(AnalyzerOuts) ==
  /\ pc = "exec"
  /\ CurrentType = "SQL_RESULT_ANALYZER"
  /\ IF ResultKeyIndex(CurrentNode) = 0
       THEN /\ node_status' = SetState(node_status, current_node_id, "failed",
                                       "requires a result_ artifact")
            /\ last_output' = [status |-> "fail",
                               artifacts |-> [isdict |-> TRUE, map |-> EmptyDict],
                               stats |-> {},
                               error |-> "requires a result_ artifact"]
            /\ UNCHANGED analyzer_payload
       ELSE \E out \in AnalyzerOuts :
              /\ analyzer_payload' =
                   AnalyzerPayload(CurrentNode, executed_queries, artifacts)
              /\ last_output' = [status |-> out.status,
                                 artifacts |-> JsonLoads(out.outputs),
                                 stats |-> {}, error |-> None]
              /\ node_status' =
                   IF out.status = "ok"
                     THEN SetState(node_status, current_node_id, "succeeded",
                                   node_status[current_node_id].last_error)
                     ELSE SetState(node_status, current_node_id, "failed",
                                   "Result summarization failed.")
  /\ pc' = "resolve"
  /\ UNCHANGED <<plan, artifacts, current_node_id, executed_queries,
                 total_attempts, issues>>

\* Mutation: a node of an unknown type is passed over as done.
run_unknown_type_passes ==
  /\ pc = "exec"
  /\ CurrentType \notin {"ANALYZER", "SQL", "SQL_RESULT_ANALYZER"}
  /\ node_status' = SetState(node_status, current_node_id, "succeeded",
                             node_status[current_node_id].last_error)
  /\ last_output' = [status |-> "ok",
                     artifacts |-> [isdict |-> TRUE, map |-> EmptyDict],
                     stats |-> {}, error |-> None]
  /\ pc' = "resolve"
  /\ UNCHANGED <<plan, artifacts, current_node_id, executed_queries,
                 total_attempts, issues,
                 analyzer_payload>>

\* run_node, lines 335-342.
run_unknown_type ==
  /\ pc = "exec"
  /\ CurrentType \notin {"ANALYZER", "SQL", "SQL_RESULT_ANALYZER"}
  /\ node_status' = SetState(node_status, current_node_id, "failed",
                             "Unknown node type")
  /\ last_output' = [status |-> "fail",
                     artifacts |-> [isdict |-> TRUE, map |-> EmptyDict],
                     stats |-> {}, error |-> "Unknown node type"]
  /\ pc' = "resolve"
  /\ UNCHANGED <<plan, artifacts, current_node_id, executed_queries,
                 total_attempts, issues,
                 analyzer_payload>>

\* A call of the reasoning collaborator (analyzer_chain.invoke, line 230,
\* sql_chain.invoke, line 250, sql_result_analyzer_chain.invoke, line 318)
\* raises: run_node has no handler, the exception leaves the workflow.  The
\* summarization collaborator has been handed its payload by then.
CallsCollaborator ==
  \/ CurrentType \in {"ANALYZER", "SQL"}
  \/ CurrentType = "SQL_RESULT_ANALYZER" /\ ResultKeyIndex(CurrentNode) # 0

collaborator_raises ==
  /\ pc = "exec"
  /\ CallsCollaborator
  /\ pc' = "raised"
  /\ analyzer_payload' =
       IF CurrentType = "SQL_RESULT_ANALYZER"
         THEN AnalyzerPayload(CurrentNode, executed_queries, artifacts)
         ELSE analyzer_payload
  /\ UNCHANGED <<plan, node_status, artifacts, current_node_id, last_output,
                 executed_queries, total_attempts, issues>>

\* Mutation: the edges out of the resolved node are dropped from the plan.
resolve_data_prunes_edges ==
  /\ pc = "resolve"
  /\ artifacts' =
       IF /\ current_node_id # None
          /\ node_status[current_node_id].state = "succeeded"
          /\ Truthy(last_output)
          /\ last_output.artifacts.isdict
         THEN DictUpdate(artifacts, last_output.artifacts.map)
         ELSE artifacts
  /\ plan' = [plan EXCEPT !.edges = {x \in @ : x[1] # current_node_id}]
  /\ pc' = "continue"
  /\ UNCHANGED <<node_status, current_node_id, last_output,
                 executed_queries, total_attempts, issues, analyzer_payload>>

\* Mutation: the artifacts are merged whatever the state of the node.
resolve_data_merges_always ==
  /\ pc = "resolve"
  /\ artifacts' =
       IF /\ current_node_id # None
          /\ Truthy(last_output)
          /\ last_output.artifacts.isdict
         THEN DictUpdate(artifacts, last_output.artifacts.map)
         ELSE artifacts
  /\ pc' = "continue"
  /\ UNCHANGED <<plan, node_status, current_node_id, last_output,
                 executed_queries, total_attempts, issues,
                 analyzer_payload>>

\* Mutation: only the names the store does not hold yet are merged.
resolve_data_skips_existing ==
  /\ pc = "resolve"
  /\ artifacts' =
       IF /\ current_node_id # None
          /\ node_status[current_node_id].state = "succeeded"
          /\ Truthy(last_output)
          /\ last_output.artifacts.isdict
         THEN DictUpdate(last_output.artifacts.map, artifacts)
         ELSE artifacts
  /\ pc' = "continue"
  /\ UNCHANGED <<plan, node_status, current_node_id, last_output,
                 executed_queries, total_attempts, issues,
                 analyzer_payload>>

resolve_data ==
  /\ pc = "resolve"
  /\ artifacts' =
       IF /\ current_node_id # None
          /\ node_status[current_node_id].state = "succeeded"
          /\ Truthy(last_output)
          /\ last_output.artifacts.isdict
         THEN DictUpdate(artifacts, last_output.artifacts.map)
         ELSE artifacts
  /\ pc' = "continue"
  /\ UNCHANGED <<plan, node_status, current_node_id, last_output,
                 executed_queries, total_attempts, issues,
                 analyzer_payload>>

\* Mutation: only failed entries count as not succeeded.
NoneFailed(status) == \A id \in DOMAIN status : status[id].state # "failed"

AllSucceeded(status) == \A id \in DOMAIN status : status[id].state = "succeeded"

\* Mutation: the run ends as soon as some node has failed.
should_continue_stop_on_failure ==
  /\ pc = "continue"
  /\ IF total_attempts >= MaxAttempts
       THEN /\ issues' = Append(issues, "max_attempts_exceeded")
            /\ pc' = "end"
     ELSE IF Runnable = <<>> \/ ~NoneFailed(node_status)
       THEN /\ issues' = IF ~AllSucceeded(node_status)
                           THEN Append(issues, "execution_stalled_due_to_failures")
                           ELSE issues
            /\ pc' = "end"
     ELSE /\ issues' = issues
          /\ pc' = "select"
  /\ UNCHANGED <<plan, node_status, artifacts, current_node_id, last_output,
                 executed_queries, total_attempts,
                 analyzer_payload>>

\* Mutation: a run that ends below the cap always records the stall.
should_continue_always_stalled ==
  /\ pc = "continue"
  /\ IF total_attempts >= MaxAttempts
       THEN /\ issues' = Append(issues, "max_attempts_exceeded")
            /\ pc' = "end"
     ELSE IF Runnable = <<>>
       THEN /\ issues' = Append(issues, "execution_stalled_due_to_failures")
            /\ pc' = "end"
     ELSE /\ issues' = issues
          /\ pc' = "select"
  /\ UNCHANGED <<plan, node_status, artifacts, current_node_id, last_output,
                 executed_queries, total_attempts, analyzer_payload>>

\* Mutation: at the cap a stalled run records both reasons.
should_continue_both_issues ==
  /\ pc = "continue"
  /\ IF total_attempts >= MaxAttempts
       THEN /\ issues' =
                 IF Runnable = <<>> /\ ~AllSucceeded(node_status)
                   THEN issues \o <<"max_attempts_exceeded",
                                    "execution_stalled_due_to_failures">>
                   ELSE Append(issues, "max_attempts_exceeded")
            /\ pc' = "end"
     ELSE IF Runnable = <<>>
       THEN /\ issues' = IF ~AllSucceeded(node_status)
                           THEN Append(issues, "execution_stalled_due_to_failures")
                           ELSE issues
            /\ pc' = "end"
     ELSE /\ issues' = issues
          /\ pc' = "select"
  /\ UNCHANGED <<plan, node_status, artifacts, current_node_id, last_output,
                 executed_queries, total_attempts, analyzer_payload>>

\* Mutation: the cap is compared with > instead of >=.
should_continue_cap_off_by_one ==
  /\ pc = "continue"
  /\ IF total_attempts > MaxAttempts
       THEN /\ issues' = Append(issues, "max_attempts_exceeded")
            /\ pc' = "end"
     ELSE IF Runnable = <<>>
       THEN /\ issues' = IF ~AllSucceeded(node_status)
                           THEN Append(issues, "execution_stalled_due_to_failures")
                           ELSE issues
            /\ pc' = "end"
     ELSE /\ issues' = issues
          /\ pc' = "select"
  /\ UNCHANGED <<plan, node_status, artifacts, current_node_id, last_output,
                 executed_queries, total_attempts,
                 analyzer_payload>>

should_continue ==
  /\ pc = "continue"
  /\ IF total_attempts >= MaxAttempts
       THEN /\ issues' = Append(issues, "max_attempts_exceeded")
            /\ pc' = "end"
     ELSE IF Runnable = <<>>
       THEN /\ issues' = IF ~AllSucceeded(node_status)
                           THEN Append(issues, "execution_stalled_due_to_failures")
                           ELSE issues
            /\ pc' = "end"
     ELSE /\ issues' = issues
          /\ pc' = "select"
  /\ UNCHANGED <<plan, node_status, artifacts, current_node_id, last_output,
                 executed_queries, total_attempts,
                 analyzer_payload>>

(* ------------------------------- plans --------------------------------- *)

\* The produces list the enumerated plans declare for a node of each type.
ProducesOf(type) ==
  CASE Upper(type) = "SQL" -> <<SqlA, ResultA>>
    [] Upper(type) \in {"ANALYZER", "SQL_RESULT_ANALYZER"} -> <<SummaryA>>
    [] OTHER -> <<>>

NodeTypes == {"sql", "ANALYZER", "SQL_RESULT_ANALYZER", "REPORT"}
RequiresChoices == {<<>>, <<ResultA>>}

NodeSpec(id, type, requires) ==
  [id |-> id, type |-> type, requires |-> requires, produces |-> ProducesOf(type)]

\* Edge sets of at most n edges with sources in srcs and destinations in dsts.
EdgeSets(srcs, dsts, n) ==
  {E \in SUBSET (srcs \X dsts) : Cardinality(E) <= n}

Ids(k) == {NodeNames[i] : i \in 1..k}

\* A plan of k nodes with the given types, requires lists and edges.
MakePlan(k, ty, rq, E) ==
  [nodes |-> [i \in 1..k |-> NodeSpec(NodeNames[i], ty[i], rq[i])],
   edges |-> E]

\* Plans large enough to reach the attempt cap: a chain of n ANALYZER nodes,
\* and n independent nodes of an unknown type.
ChainPlan(n) ==
  MakePlan(n, [i \in 1..n |-> "ANALYZER"], [i \in 1..n |-> <<>>],
           {<<NodeNames[i], NodeNames[i + 1]>> : i \in 1..(n - 1)})

WidePlan(n) ==
  MakePlan(n, [i \in 1..n |-> "REPORT"], [i \in 1..n |-> <<>>], {})

(* -------------------------- specification ------------------------------ *)

\* The state the planner hands to select_node: every node of the plan is
\* registered with a fresh status, nothing has run.
InitWith(p) ==
  /\ plan = p
  /\ node_status = [id \in PlanNodeIds(p) |-> NodeStatusDefault]
  /\ artifacts = EmptyDict
  /\ current_node_id = None
  /\ last_output = NoOutput
  /\ executed_queries = <<>>
  /\ total_attempts = 0
  /\ issues = <<>>
  /\ analyzer_payload = NoPayload
  /\ pc = "select"

\* Every plan of up to MaxNodes nodes over the node types and requires lists,
\* with up to MaxEdges edges, self loops and unknown sources included.
InitEnumerated ==
  \E k \in 1..MaxNodes :
    \E ty \in [1..k -> NodeTypes], rq \in [1..k -> RequiresChoices],
       E \in EdgeSets(Ids(k) \cup {Ghost}, Ids(k), MaxEdges) :
      InitWith(MakePlan(k, ty, rq, E))

\* Every precedence graph of up to MaxEdges + 2 edges over MaxNodes + 1
\* ANALYZER nodes that require nothing: chains, fans, cycles.
InitGraph ==
  LET k == MaxNodes + 1
  IN \E E \in EdgeSets(Ids(k), Ids(k), MaxEdges + 2) :
       InitWith(MakePlan(k, [i \in 1..k |-> "ANALYZER"],
                         [i \in 1..k |-> <<>>], E))

\* Plans of MaxAttempts and MaxAttempts + 1 nodes.
InitWide ==
  \E n \in {MaxAttempts, MaxAttempts + 1} :
    InitWith(ChainPlan(n)) \/ InitWith(WidePlan(n))

\* Two-node plans n1 (SQL) > n2 (SQL_RESULT_ANALYZER) whose produces and
\* requires lists vary in names, order and length.
InitNamed ==
  \E pr \in {<<SqlA, ResultsB>>, <<SummaryA, SqlA, SqlB, ResultA, ResultB>>,
              <<ResultA>>, <<SummaryA>>},
     rq \in {<<ResultsB>>, <<SqlA, ResultA>>, <<SqlA>>} :
    InitWith([nodes |-> <<[id |-> "n1", type |-> "SQL", requires |-> <<>>,
                           produces |-> pr],
                          [id |-> "n2", type |-> "SQL_RESULT_ANALYZER",
                           requires |-> rq, produces |-> <<SummaryA>>]>>,
              edges |-> {<<"n1", "n2">>}])

\* Two SQL nodes with names of their own and a SQL_RESULT_ANALYZER node that
\* requires the result of the first: the second SQL node runs in between.
InitInterleaved ==
  \E E \in {{<<"n1", "n3">>}, {<<"n1", "n3">>, <<"n2", "n3">>}, {}} :
    InitWith([nodes |-> <<[id |-> "n1", type |-> "SQL", requires |-> <<>>,
                           produces |-> <<SqlA, ResultA>>],
                          [id |-> "n2", type |-> "SQL", requires |-> <<>>,
                           produces |-> <<SqlB, ResultB>>],
                          [id |-> "n3", type |-> "SQL_RESULT_ANALYZER",
                           requires |-> <<ResultA>>,
                           produces |-> <<SummaryA>>]>>,
              edges |-> E])

Init == InitEnumerated \/ InitGraph \/ InitWide \/ InitNamed \/ InitInterleaved

\* What the collaborators return in Spec.
AnalyzerOuts ==
  {[status |-> "ok", outputs |-> DictJson([k \in {SummaryA} |-> JsonValue("j1")])],
   [status |-> "ok", outputs |-> DictJson([k \in {ResultA} |-> JsonValue("j1")])],
   [status |-> "ok", outputs |-> BadJson],
   [status |-> "ok", outputs |-> ListJson],
   [status |-> "fail", outputs |-> DictJson([k \in {SummaryA} |-> JsonValue("j1")])],
   [status |-> "fail", outputs |-> BadJson]}

SqlOuts == {SelectStmt, UpdateStmt, InsertSelectStmt, PaddedSelectStmt}

Engines == {EngineNoDb, EngineError, EngineRows0, EngineRows1}

run_node_exec ==
  \/ run_analyzer(AnalyzerOuts)
  \/ run_sql(SqlOuts, Engines)
  \/ run_sql_result_analyzer(AnalyzerOuts)
  \/ run_unknown_type
  \/ collaborator_raises

Next ==
  \/ select_node
  \/ run_node_start
  \/ run_node_exec
  \/ resolve_data
  \/ should_continue

Spec == Init /\ [][Next]_vars

(* ------------------------------ claims --------------------------------- *)
\* The readiness conditions, the precedence relation and the counters are
\* restated here from the plan and the tables, independently of the
\* operators the actions use.

NodeIds == DOMAIN node_status

\* The state of a node id, pending for an id the table does not hold.
StateOf(id) == IF id \in NodeIds THEN node_status[id].state ELSE "pending"

Sources(id) == {e[1] : e \in {x \in plan.edges : x[2] = id}}

SourcesSucceeded(id) == \A q \in Sources(id) : StateOf(q) = "succeeded"

RequiresStored(node) ==
  \A j \in 1..Len(node.requires) : node.requires[j] \in DOMAIN artifacts

\* The nodes reachable from a set of ids along precedence edges.
RECURSIVE Closure(_)
Closure(S) ==
  LET N == S \cup {e[2] : e \in {x \in plan.edges : x[1] \in S}}
  IN IF N = S THEN S ELSE Closure(N)

Descendants(a) == Closure({e[2] : e \in {x \in plan.edges : x[1] = a}})

\* C1: no premature run. A step that selects a node, or moves it to
\* running, starts in a state where the node is pending, every source of an
\* edge into it is succeeded and every name of its requires list is a key of
\* the artifact store.
C1_NoPrematureRun ==
  [][\A i \in 1..Len(plan.nodes) :
       LET node == plan.nodes[i]
       IN (\/ pc = "select" /\ current_node_id' = node.id
           \/ /\ node_status[node.id].state # "running"
              /\ node_status'[node.id].state = "running")
          => /\ node_status[node.id].state = "pending"
             /\ SourcesSucceeded(node.id)
             /\ RequiresStored(node)]_vars

\* A node with an incoming edge and a non-empty requires list is running.
C1_Witness ==
  /\ pc = "exec"
  /\ node_status[current_node_id].state = "running"
  /\ Sources(current_node_id) # {}
  /\ \E i \in 1..Len(plan.nodes) :
       plan.nodes[i].id = current_node_id /\ plan.nodes[i].requires # <<>>

\* C2: failure isolation. Whenever a node A is failed, every node reachable
\* from A along precedence edges is pending with no attempt.
C2_FailureIsolation ==
  \A a \in NodeIds :
    node_status[a].state = "failed"
      => \A b \in Descendants(a) \cap NodeIds :
           node_status[b].state = "pending" /\ node_status[b].attempts = 0

\* The run has ended with a failed node and a node that depends on it only
\* through another node.
C2_Witness ==
  /\ pc = "end"
  /\ \E a \in NodeIds :
       /\ node_status[a].state = "failed"
       /\ \E b \in Descendants(a) \cap NodeIds : <<a, b>> \notin plan.edges

\* C3: nodes independent of a failure are unaffected. When the run has ended
\* below the attempt cap, every node whose predecessors all succeeded and
\* whose requires names are all stored has been executed.
C3_IndependentNodesRun ==
  (pc = "end" /\ total_attempts < MaxAttempts)
    => \A i \in 1..Len(plan.nodes) :
         LET node == plan.nodes[i]
         IN (SourcesSucceeded(node.id) /\ RequiresStored(node))
              => /\ node_status[node.id].state \in {"succeeded", "failed"}
                 /\ node_status[node.id].attempts >= 1

\* The run has ended below the cap; the first node failed and a node that
\* does not depend on it ran afterwards and succeeded.
C3_Witness ==
  /\ pc = "end"
  /\ total_attempts < MaxAttempts
  /\ node_status[plan.nodes[1].id].state = "failed"
  /\ \E c \in NodeIds \ Descendants(plan.nodes[1].id) :
       node_status[c].state = "succeeded"

\* C4: termination within the cap. The loop stops nowhere but at end (it
\* reaches end for every plan shape), and the global attempt count never
\* exceeds the cap.
C4_TerminatesWithinCap ==
  /\ pc = "end" \/ ENABLED Next
  /\ total_attempts <= MaxAttempts

RECURSIVE SumAttempts(_)
SumAttempts(ids) ==
  IF ids = {} THEN 0
  ELSE LET id == CHOOSE x \in ids : TRUE
       IN node_status[id].attempts + SumAttempts(ids \ {id})

RECURSIVE SumAttemptsNext(_)
SumAttemptsNext(ids) ==
  IF ids = {} THEN 0
  ELSE LET id == CHOOSE x \in ids : TRUE
       IN node_status'[id].attempts + SumAttemptsNext(ids \ {id})

\* C5: attempt accounting. Before and after every step the global attempt
\* counter is the sum of the attempts fields of the status table; a step that
\* moves a node from pending to running adds one to that node's attempts and
\* to the global counter, and no other step changes any attempts field or
\* the global counter.
C5_AttemptAccounting ==
  [][/\ total_attempts = SumAttempts(NodeIds)
     /\ total_attempts' = SumAttemptsNext(NodeIds)
     /\ \A id \in NodeIds :
          IF node_status[id].state = "pending" /\ node_status'[id].state = "running"
            THEN /\ node_status'[id].attempts = node_status[id].attempts + 1
                 /\ total_attempts' = total_attempts + 1
            ELSE node_status'[id].attempts = node_status[id].attempts
     /\ (\A id \in NodeIds :
           ~(node_status[id].state = "pending" /\ node_status'[id].state = "running"))
          => total_attempts' = total_attempts]_vars

\* Two nodes have been executed.
C5_Witness ==
  /\ total_attempts = 2
  /\ Cardinality({id \in NodeIds : node_status[id].attempts = 1}) = 2

\* C6: no fault escapes the Node Executor. The workflow is never left by an
\* exception, and outside the executor no node is in state running: every
\* execution has ended succeeded or failed with a result record carrying a
\* status.
C6_NoFaultEscapes ==
  /\ pc # "raised"
  /\ pc # "exec" => \A id \in NodeIds : node_status[id].state # "running"
  /\ (pc \in {"resolve", "continue"} /\ current_node_id # None)
       => /\ node_status[current_node_id].state \in {"succeeded", "failed"}
          /\ last_output.status # None

\* C7: node lifecycle. A step changes the state of a node only from pending
\* to running, from running to succeeded or from running to failed, so
\* succeeded and failed are terminal.
C7_Lifecycle ==
  [][\A id \in NodeIds :
       \/ node_status'[id].state = node_status[id].state
       \/ <<node_status[id].state, node_status'[id].state>> \in
            {<<"pending", "running">>, <<"running", "succeeded">>,
             <<"running", "failed">>}]_vars

\* A later node is running after one node succeeded and another failed.
C7_Witness ==
  /\ pc = "exec"
  /\ \E a, b \in NodeIds :
       node_status[a].state = "succeeded" /\ node_status[b].state = "failed"

\* The ids of the nodes the Readiness Resolver returns.
ReturnedIds(runnable) == {runnable[i].id : i \in 1..Len(runnable)}

\* C8: readiness monotonicity. In every state no succeeded node is among the
\* nodes the Readiness Resolver returns, and every step leaves a succeeded
\* node succeeded: once succeeded, a node is never returned again.
C8_ReadinessMonotonic ==
  /\ [](\A id \in NodeIds :
          node_status[id].state = "succeeded" => id \notin ReturnedIds(Runnable))
  /\ [][\A id \in NodeIds :
          node_status[id].state = "succeeded"
            => node_status'[id].state = "succeeded"]_vars

\* The resolver is consulted in a later cycle while a succeeded node still
\* meets the precedence and requires conditions, and it returns another node.
C8_Witness ==
  /\ pc = "select"
  /\ Runnable # <<>>
  /\ \E i \in 1..Len(plan.nodes) :
       /\ node_status[plan.nodes[i].id].state = "succeeded"
       /\ SourcesSucceeded(plan.nodes[i].id)
       /\ RequiresStored(plan.nodes[i])

\* C9: no retry. No node has more than one attempt; a node that is selected
\* is pending (a failed node is never selected again); and a single-node plan
\* whose node failed ends with one global attempt and the only issue
\* execution_stalled_due_to_failures.
C9_NoRetry ==
  /\ \A id \in NodeIds : node_status[id].attempts <= 1
  /\ (pc = "run" /\ current_node_id # None)
       => node_status[current_node_id].state = "pending"
  /\ (pc = "end" /\ Len(plan.nodes) = 1
        /\ node_status[plan.nodes[1].id].state = "failed")
       => /\ total_attempts = 1
          /\ issues = <<"execution_stalled_due_to_failures">>

\* A single-node plan has ended with its node failed.
C9_Witness ==
  /\ pc = "end"
  /\ Len(plan.nodes) = 1
  /\ node_status[plan.nodes[1].id].state = "failed"
  /\ node_status[plan.nodes[1].id].attempts = 1

\* C10: stall detection. A Continue? step taken below the cap when the
\* resolver returns no node ends the run, and appends the issue
\* execution_stalled_due_to_failures exactly when some entry of the status
\* table is not succeeded.
C10_StallDetection ==
  [][(pc = "continue" /\ total_attempts < MaxAttempts /\ Runnable = <<>>)
       => /\ pc' = "end"
          /\ issues' =
               IF \E id \in NodeIds : node_status[id].state # "succeeded"
                 THEN Append(issues, "execution_stalled_due_to_failures")
                 ELSE issues]_vars

\* The run has ended below the cap with the stall issue although no node
\* failed: a pending node was never runnable.
C10_Witness ==
  /\ pc = "end"
  /\ total_attempts < MaxAttempts
  /\ issues = <<"execution_stalled_due_to_failures">>
  /\ \E id \in NodeIds : node_status[id].state = "succeeded"
  /\ \A id \in NodeIds : node_status[id].state # "failed"

\* The nodes that have left the pending state.
Executed == {id \in NodeIds : node_status[id].state # "pending"}

\* A plan whose nodes are all runnable from the start: no edge, no requires.
AllRunnableAtStart ==
  /\ plan.edges = {}
  /\ \A i \in 1..Len(plan.nodes) : plan.nodes[i].requires = <<>>

\* C11: attempt cap. A Continue? step taken with the global attempt count at
\* or above the cap appends max_attempts_exceeded and ends the run, whether
\* or not runnable nodes remain; the count never exceeds the cap; and a plan
\* of more than MaxAttempts runnable nodes ends with exactly MaxAttempts
\* nodes executed and the rest pending.
C11_AttemptCap ==
  /\ [][(pc = "continue" /\ total_attempts >= MaxAttempts)
          => /\ pc' = "end"
             /\ issues' = Append(issues, "max_attempts_exceeded")]_vars
  /\ [](total_attempts <= MaxAttempts)
  /\ []((pc = "end" /\ AllRunnableAtStart /\ Len(plan.nodes) > MaxAttempts)
          => /\ Cardinality(Executed) = MaxAttempts
             /\ \A id \in NodeIds \ Executed : node_status[id].attempts = 0)

\* A plan of more than MaxAttempts runnable nodes has ended at the cap with
\* a node still runnable.
C11_Witness ==
  /\ pc = "end"
  /\ AllRunnableAtStart
  /\ Len(plan.nodes) > MaxAttempts
  /\ issues = <<"max_attempts_exceeded">>
  /\ \E id \in NodeIds : node_status[id].state = "pending"

\* C12: no issue on full success. In every terminal state in which every
\* node of the plan is succeeded, the issue list is empty.
C12_NoIssueOnFullSuccess ==
  (pc = "end" /\ \A id \in NodeIds : node_status[id].state = "succeeded")
    => issues = <<>>

\* The step is the Resolve step of a node that ended in the given state.
ResolvesNodeIn(state) ==
  /\ pc = "resolve"
  /\ current_node_id # None
  /\ node_status[current_node_id].state = state

\* C13: artifacts are written only by successful executions. The Resolve
\* step of a node that ended failed leaves the store unchanged, whatever
\* artifacts its result record carries, and a step that changes the store is
\* the Resolve step of a succeeded node.
C13_OnlySuccessWrites ==
  [][/\ ResolvesNodeIn("failed") => artifacts' = artifacts
     /\ artifacts' # artifacts => ResolvesNodeIn("succeeded")]_vars

\* A SQL node failed in the engine after its statement text was put into
\* the result record; the Resolve step is over and the store holds nothing.
C13_Witness ==
  /\ pc = "continue"
  /\ current_node_id # None
  /\ node_status[current_node_id].state = "failed"
  /\ Len(executed_queries) = 1
  /\ SqlA \in DOMAIN last_output.artifacts.map
  /\ DOMAIN artifacts = {}

\* C14: the store never loses a name. Every step leaves every key of the
\* artifact store a key of the store.
C14_KeysOnlyGrow ==
  [][DOMAIN artifacts \subseteq DOMAIN artifacts']_vars

\* A second merge has added to a non-empty store.
C14_Witness ==
  /\ pc = "continue"
  /\ DOMAIN artifacts = {SqlA, ResultA, SummaryA}
  /\ DOMAIN last_output.artifacts.map = {SummaryA}

\* C15 as stated: once a name is in the store, the value stored under it
\* never changes.
C15_ImmutableOnceWritten ==
  [][\A k \in DOMAIN artifacts :
       k \in DOMAIN artifacts' /\ artifacts'[k] = artifacts[k]]_vars

\* C15, amended: once a name is in the store it stays there, and the value
\* under it changes only in the Resolve step of a succeeded node whose
\* artifacts mapping holds the name; every stored name of that mapping then
\* carries the mapping's value.
C15_ChangedOnlyByLaterWrite ==
  [][\A k \in DOMAIN artifacts :
       /\ k \in DOMAIN artifacts'
       /\ artifacts'[k] # artifacts[k]
            => /\ ResolvesNodeIn("succeeded")
               /\ k \in DOMAIN last_output.artifacts.map
       /\ (/\ ResolvesNodeIn("succeeded")
           /\ last_output.artifacts.isdict
           /\ k \in DOMAIN last_output.artifacts.map)
            => artifacts'[k] = last_output.artifacts.map[k]]_vars

\* The table a SELECT of the first node stored under result_a has been
\* overwritten by the value the second node's collaborator returned.
C15_Witness ==
  /\ pc = "continue"
  /\ executed_queries = <<SelectStmt>>
  /\ node_status[plan.nodes[1].id].state = "succeeded"
  /\ FirstPrefixed(plan.nodes[1].produces, <<"result">>, TRUE) # 0
  /\ current_node_id # None
  /\ current_node_id # plan.nodes[1].id
  /\ ResultA \in DOMAIN artifacts
  /\ artifacts[ResultA] = JsonValue("j1")

\* C16: Resolve. An execution whose result status is ok leaves the node
\* succeeded, any other status leaves it failed with an error message on its
\* status entry; after the Resolve step of an ok result the store maps every
\* name of the result's artifacts mapping to the mapping's value and every
\* other name to its previous value.
C16_ResolveOnSuccess ==
  [][/\ (pc = "exec" /\ pc' = "resolve")
          => IF last_output'.status = "ok"
               THEN node_status'[current_node_id].state = "succeeded"
               ELSE /\ node_status'[current_node_id].state = "failed"
                    /\ node_status'[current_node_id].last_error # None
     /\ (pc = "resolve" /\ current_node_id # None /\ last_output.status = "ok"
           /\ last_output.artifacts.isdict)
          => LET m == last_output.artifacts.map
             IN /\ DOMAIN artifacts' = DOMAIN artifacts \cup DOMAIN m
                /\ \A k \in DOMAIN m : artifacts'[k] = m[k]
                /\ \A k \in DOMAIN artifacts \ DOMAIN m :
                     artifacts'[k] = artifacts[k]]_vars

\* An ok result has been merged: one name was overwritten with the
\* mapping's value and another name kept its value.
C16_Witness ==
  /\ pc = "continue"
  /\ last_output.status = "ok"
  /\ executed_queries = <<SelectStmt>>
  /\ DOMAIN last_output.artifacts.map = {ResultA}
  /\ DOMAIN artifacts = {SqlA, ResultA}
  /\ artifacts[ResultA] = JsonValue("j1")
  /\ artifacts[SqlA] = TextValue(SelectStmt)

\* C17: merge idempotence. Merging the artifacts mapping of the last result
\* into the store twice gives the store that merging it once gives.
C17_MergeIdempotent ==
  LET m == last_output.artifacts.map
  IN DictUpdate(DictUpdate(artifacts, m), m) = DictUpdate(artifacts, m)

\* The store holds a name of the mapping under another value and a name the
\* mapping does not hold.
C17_Witness ==
  LET m == last_output.artifacts.map
  IN /\ pc = "resolve"
     /\ \E k \in DOMAIN m \cap DOMAIN artifacts : artifacts[k] # m[k]
     /\ DOMAIN artifacts \ DOMAIN m # {}

\* The positions of the plan's nodes that satisfy the three readiness
\* conditions.
ReadyIdx ==
  {i \in 1..Len(plan.nodes) :
     /\ StateOf(plan.nodes[i].id) = "pending"
     /\ SourcesSucceeded(plan.nodes[i].id)
     /\ RequiresStored(plan.nodes[i])}

\* The k-th smallest ready position.
ReadyAt(k) ==
  CHOOSE i \in ReadyIdx : Cardinality({j \in ReadyIdx : j < i}) = k - 1

\* C18: deterministic selection order. The Readiness Resolver returns the
\* ready nodes in the plan's declaration order, and a Select step selects
\* the earliest-declared ready node (no node when none is ready) and changes
\* nothing else, so the selection is a function of the plan and the results
\* so far.
C18_DeclarationOrder ==
  /\ [](/\ Len(Runnable) = Cardinality(ReadyIdx)
        /\ \A k \in 1..Len(Runnable) : Runnable[k] = plan.nodes[ReadyAt(k)])
  /\ [][pc = "select"
          => /\ current_node_id' =
                  IF ReadyIdx = {} THEN None
                  ELSE plan.nodes[CHOOSE i \in ReadyIdx :
                                    \A j \in ReadyIdx : i <= j].id
             /\ pc' = "run"
             /\ UNCHANGED <<plan, node_status, artifacts, last_output,
                            executed_queries, total_attempts, issues>>]_vars

\* The selected node is not the first declared one, and a node declared
\* after it is ready too.
C18_Witness ==
  /\ pc = "run"
  /\ \E i \in ReadyIdx, j \in ReadyIdx :
       /\ 1 < i
       /\ i < j
       /\ current_node_id = plan.nodes[i].id

Running == {id \in NodeIds : node_status[id].state = "running"}

\* C19: strictly sequential execution. At most one node is running in any
\* state, and no node is running at a Select or a Continue? step.
C19_OneAtATime ==
  /\ Cardinality(Running) <= 1
  /\ pc \in {"select", "continue"} => Running = {}

\* One node is executing while another has finished and a third waits.
C19_Witness ==
  /\ pc = "exec"
  /\ Running = {current_node_id}
  /\ \E id \in NodeIds : node_status[id].state = "succeeded"
  /\ \E id \in NodeIds : node_status[id].state = "pending"

\* C20: a status entry carries an error message only if the node is failed,
\* and every failed node carries one.
C20_LastErrorIffFailed ==
  \A id \in NodeIds :
    node_status[id].last_error # None <=> node_status[id].state = "failed"

\* A node of an unknown type has failed with a message while a succeeded
\* node carries none.
C20_Witness ==
  /\ pc = "continue"
  /\ current_node_id # None
  /\ CurrentType = "REPORT"
  /\ node_status[current_node_id].state = "failed"
  /\ node_status[current_node_id].last_error # None
  /\ \E id \in NodeIds : /\ node_status[id].state = "succeeded"
                         /\ node_status[id].last_error = None

\* A node lies on a precedence cycle when it is its own descendant.
OnCycle(id) == id \in Descendants(id)

HasCycle == \E id \in NodeIds : OnCycle(id)

\* C21: a cyclic plan stalls instead of hanging. A node on a precedence
\* cycle is never selected and never leaves pending; when no node is ready
\* at Continue? below the cap, the run over a cyclic plan ends there with
\* execution_stalled_due_to_failures, and every ended run over a cyclic plan
\* below the cap carries exactly that issue.
C21_CycleStalls ==
  /\ [](\A id \in NodeIds :
          OnCycle(id) => /\ current_node_id # id
                         /\ node_status[id].state = "pending"
                         /\ node_status[id].attempts = 0)
  /\ [][(pc = "continue" /\ HasCycle /\ total_attempts < MaxAttempts
           /\ ReadyIdx = {})
          => /\ pc' = "end"
             /\ issues' = Append(issues, "execution_stalled_due_to_failures")]_vars
  /\ []((pc = "end" /\ HasCycle /\ total_attempts < MaxAttempts)
          => issues = <<"execution_stalled_due_to_failures">>)

\* The run over a plan with a cycle and a node outside it has ended: the
\* outside node has run, the cycle's nodes are pending.
C21_Witness ==
  /\ pc = "end"
  /\ HasCycle
  /\ \E id \in NodeIds : ~OnCycle(id) /\ node_status[id].state = "succeeded"
  /\ \E a \in NodeIds, b \in NodeIds : a # b /\ OnCycle(a) /\ a \in Descendants(b)
                                        /\ b \in Descendants(a)
  /\ issues = <<"execution_stalled_due_to_failures">>

\* The plan of the hand-off scenario: SQL node n1 produces result_a,
\* SQL_RESULT_ANALYZER node n2 requires it, edge n1>n2.
HandOffPlan ==
  /\ Len(plan.nodes) = 2
  /\ plan.nodes[1].id = "n1" /\ Upper(plan.nodes[1].type) = "SQL"
  /\ ResultA \in {plan.nodes[1].produces[i] : i \in 1..Len(plan.nodes[1].produces)}
  /\ plan.nodes[2].id = "n2" /\ plan.nodes[2].type = "SQL_RESULT_ANALYZER"
  /\ plan.nodes[2].requires = <<ResultA>>
  /\ plan.edges = {<<"n1", "n2">>}

\* n1 has succeeded, its result_a is in the store, n2 has not run.
HandedOff ==
  /\ HandOffPlan
  /\ node_status["n1"].state = "succeeded"
  /\ ResultA \in DOMAIN artifacts
  /\ node_status["n2"].state = "pending"

\* C22: result hand-off. Once n1 has succeeded and its result_a is merged,
\* n2 is among the runnable nodes, Continue? goes on to Select and Select
\* takes n2; when n2 has succeeded with a mapping that holds summary_a,
\* Continue? ends the run, and the ended run has summary_a in the store,
\* every node succeeded and no issue.
C22_ResultHandOff ==
  /\ []((HandedOff /\ pc \in {"continue", "select"})
          => "n2" \in ReturnedIds(Runnable))
  /\ [][/\ (HandedOff /\ pc = "continue") => pc' = "select"
        /\ (HandedOff /\ pc = "select") => current_node_id' = "n2"
        /\ (/\ HandOffPlan
            /\ pc = "continue"
            /\ node_status["n2"].state = "succeeded")
             => pc' = "end" /\ issues' = <<>>]_vars
  /\ []((/\ HandOffPlan
         /\ pc = "end"
         /\ node_status["n2"].state = "succeeded"
         /\ last_output.artifacts.isdict
         /\ SummaryA \in DOMAIN last_output.artifacts.map)
          => /\ SummaryA \in DOMAIN artifacts
             /\ \A id \in NodeIds : node_status[id].state = "succeeded"
             /\ issues = <<>>)

\* The scenario has run to its end: result_a holds the one-row table,
\* summary_a is stored, both nodes are succeeded.
C22_Witness ==
  /\ HandOffPlan
  /\ pc = "end"
  /\ DOMAIN artifacts = {SqlA, ResultA, SummaryA}
  /\ artifacts[ResultA] = TableValue(<<<<1>>>>)
  /\ node_status["n1"].state = "succeeded"
  /\ node_status["n2"].state = "succeeded"
  /\ issues = <<>>

\* The first word of a statement, blanks skipped.
FirstWord(sql) ==
  LET W == {i \in 1..Len(sql) : sql[i] # " "}
  IN IF W = {} THEN "" ELSE sql[CHOOSE i \in W : \A j \in W : i <= j]

BeginsWithSelect(sql) == Lower(FirstWord(sql)) = "select"

LastQuery == executed_queries[Len(executed_queries)]

\* The first produces entry of a node whose name begins with the word, case
\* ignored; 0 when there is none.
FirstProduces(node, word) ==
  LET H == {i \in 1..Len(node.produces) :
              node.produces[i] # <<>> /\ Lower(node.produces[i][1]) = word}
  IN IF H = {} THEN 0 ELSE CHOOSE i \in H : \A j \in H : i <= j

\* The current node is a SQL node whose executor step is being taken.
SqlStep ==
  /\ pc = "exec"
  /\ pc' = "resolve"
  /\ Lower(plan.nodes[CHOOSE i \in 1..Len(plan.nodes) :
                        plan.nodes[i].id = current_node_id].type) = "sql"

\* The current node is a SQL node that has just been executed.
SqlDone ==
  /\ pc \in {"resolve", "continue"}
  /\ current_node_id # None
  /\ Lower(plan.nodes[CHOOSE i \in 1..Len(plan.nodes) :
                        plan.nodes[i].id = current_node_id].type) = "sql"

CurrentSpec ==
  plan.nodes[CHOOSE i \in 1..Len(plan.nodes) : plan.nodes[i].id = current_node_id]

EmptyTable == [columns |-> <<"c">>, rows |-> <<>>]

\* C23: a SELECT that runs without error and returns no row. The engine
\* boundary reports status ok, rowsAffected 0 and the table without rows;
\* the node ends succeeded with rowsAffected 0 and that table under its
\* first result-prefixed produces entry, and after Resolve the store holds
\* the table, so the requires list of a node that names it is satisfied.
C23_EmptySelect ==
  /\ [](\A sql \in SqlOuts :
          BeginsWithSelect(sql)
            => LET r == _exec_sqlite(sql, EngineRows0)
               IN r.status = "ok" /\ r.stats = {0} /\ r.result = {EmptyTable})
  /\ [][(/\ SqlStep
         /\ BeginsWithSelect(LastQuery')
         /\ last_output'.status = "ok"
         /\ last_output'.stats = {0})
          => LET ri == FirstProduces(CurrentSpec, "result")
             IN /\ node_status'[current_node_id].state = "succeeded"
                /\ ri # 0 =>
                     /\ CurrentSpec.produces[ri] \in DOMAIN last_output'.artifacts.map
                     /\ last_output'.artifacts.map[CurrentSpec.produces[ri]] = EmptyTable]_vars
  /\ []((/\ SqlDone
         /\ pc = "continue"
         /\ BeginsWithSelect(LastQuery)
         /\ last_output.status = "ok"
         /\ last_output.stats = {0}
         /\ FirstProduces(CurrentSpec, "result") # 0)
          => LET name == CurrentSpec.produces[FirstProduces(CurrentSpec, "result")]
             IN /\ name \in DOMAIN artifacts
                /\ artifacts[name] = EmptyTable
                /\ \A i \in 1..Len(plan.nodes) :
                     plan.nodes[i].requires = <<name>> => RequiresStored(plan.nodes[i]))

\* The node that requires the result of a SELECT without rows is running.
C23_Witness ==
  /\ pc = "exec"
  /\ HandOffPlan
  /\ current_node_id = "n2"
  /\ BeginsWithSelect(LastQuery)
  /\ ResultA \in DOMAIN artifacts
  /\ artifacts[ResultA] = EmptyTable

\* Select has found no ready node and the run has not ended yet.
NothingSelected ==
  current_node_id = None /\ pc \in {"run", "resolve", "continue"}

\* C24: nothing runnable at Select. From a Select step that finds no ready
\* node up to the end of the run no node is selected or executed: every step
\* leaves the status table, the attempt counter, the store and the statement
\* log unchanged, and Continue? ends the run.
C24_EmptySelectEndsRun ==
  [][((pc = "select" /\ ReadyIdx = {}) \/ NothingSelected)
       => /\ UNCHANGED <<node_status, total_attempts, artifacts,
                         executed_queries>>
          /\ current_node_id' = None
          /\ pc' \in {"run", "resolve", "continue", "end"}
          /\ pc = "continue" => pc' = "end"]_vars

\* A run over a plan of several nodes has ended without selecting any.
C24_Witness ==
  /\ pc = "end"
  /\ current_node_id = None
  /\ Len(plan.nodes) > 1
  /\ \A id \in NodeIds : node_status[id].state = "pending"
  /\ executed_queries = <<>>
  /\ issues = <<"execution_stalled_due_to_failures">>

\* The current node is a SQL_RESULT_ANALYZER node about to be executed.
SummarizerAtExec ==
  /\ pc = "exec"
  /\ CurrentSpec.type = "SQL_RESULT_ANALYZER"

\* Some name of the requires list begins with the word.
RequiresBegins(node, word) ==
  \E j \in 1..Len(node.requires) :
    node.requires[j] # <<>> /\ node.requires[j][1] = word

\* C25: a SQL_RESULT_ANALYZER node fails at once, with the structural error
\* and without a collaborator call, exactly when no name of its requires
\* list begins with result; otherwise the summarization collaborator is
\* called and decides (or its exception escapes).
C25_FailsIffNoResultName ==
  [][SummarizerAtExec
       => IF RequiresBegins(CurrentSpec, "result")
            THEN node_status'[current_node_id].last_error
                   # "requires a result_ artifact"
            ELSE /\ pc' = "resolve"
                 /\ node_status'[current_node_id].state = "failed"
                 /\ node_status'[current_node_id].last_error
                      = "requires a result_ artifact"]_vars

\* The spellings of the three node types the executor knows.
KnownTypes ==
  {"SQL", "sql", "ANALYZER", "analyzer", "SQL_RESULT_ANALYZER"}

\* A node has been selected and its type is none of the known ones.
UnknownTypeSelected ==
  /\ current_node_id # None
  /\ CurrentSpec.type \notin KnownTypes

\* C26: unknown node type. The executor step of a node whose type is none
\* of SQL, ANALYZER, SQL_RESULT_ANALYZER (letter case ignored) ends in
\* Resolve with the node failed and the unknown-node-type message, no
\* statement logged and no collaborator exception possible; the attempt
\* taken when the node started stays counted; the store is unchanged by the
\* executor step and by the Resolve step.
C26_UnknownTypeFails ==
  /\ [][(UnknownTypeSelected /\ pc = "exec")
          => /\ pc' = "resolve"
             /\ node_status'[current_node_id] =
                  [state |-> "failed", attempts |-> 1,
                   last_error |-> "Unknown node type"]
             /\ last_output'.status = "fail"
             /\ UNCHANGED <<artifacts, executed_queries, total_attempts>>]_vars
  /\ [][(UnknownTypeSelected /\ pc = "resolve")
          => UNCHANGED <<artifacts, node_status, executed_queries,
                         total_attempts>>]_vars
  /\ []((UnknownTypeSelected /\ pc = "exec")
          => /\ node_status[current_node_id].attempts = 1
             /\ total_attempts >= 1)

\* A node of an unknown type has failed after a SQL node filled the store.
C26_Witness ==
  /\ pc = "continue"
  /\ UnknownTypeSelected
  /\ node_status[current_node_id] =
       [state |-> "failed", attempts |-> 1, last_error |-> "Unknown node type"]
  /\ total_attempts = 2
  /\ DOMAIN artifacts = {SqlA, ResultA}
  /\ Len(executed_queries) = 1

\* The selected node is an ANALYZER or a SQL_RESULT_ANALYZER node.
AnalyzerSelected ==
  /\ current_node_id # None
  /\ CurrentSpec.type \in {"ANALYZER", "analyzer", "SQL_RESULT_ANALYZER"}

\* C27: the collaborator's status alone decides. The executor step of an
\* ANALYZER or SQL_RESULT_ANALYZER node leaves the node succeeded exactly
\* when the result status is ok, whatever the outputs were; outputs that do
\* not decode become the empty mapping, and the Resolve step of an ok result
\* with the empty mapping leaves the node succeeded and the store unchanged.
C27_StatusDecides ==
  /\ [][(AnalyzerSelected /\ pc = "exec" /\ pc' = "resolve")
          => (node_status'[current_node_id].state = "succeeded"
                <=> last_output'.status = "ok")
             /\ node_status'[current_node_id].state \in {"succeeded", "failed"}]_vars
  /\ [](\A out \in AnalyzerOuts :
          ~out.outputs.valid
            => JsonLoads(out.outputs) = [isdict |-> TRUE, map |-> EmptyDict])
  /\ [][(/\ AnalyzerSelected
         /\ pc = "resolve"
         /\ last_output.status = "ok"
         /\ DOMAIN last_output.artifacts.map = {})
          => /\ artifacts' = artifacts
             /\ node_status'[current_node_id].state = "succeeded"]_vars

\* An ANALYZER node has succeeded on outputs that gave no mapping entry:
\* its declared produces name is not in the store.
C27_Witness ==
  /\ pc = "continue"
  /\ AnalyzerSelected
  /\ node_status[current_node_id].state = "succeeded"
  /\ last_output.status = "ok"
  /\ last_output.artifacts = [isdict |-> TRUE, map |-> EmptyDict]
  /\ CurrentSpec.produces = <<SummaryA>>
  /\ SummaryA \notin DOMAIN artifacts

\* The error text of an engine that does not run the statement.
EngineErrorText(engine) ==
  IF ~engine.db THEN "Database path not found" ELSE "engine error"

\* C28: a statement that fails in the relational engine. The engine
\* boundary turns a missing database and a raised error into status fail
\* with the engine's text; the executor step then leaves the node failed
\* with that text as its error and as the error of the result record; the
\* step that logs a statement never raises, Resolve leaves the store
\* unchanged and Continue? follows.
C28_EngineFailureCaptured ==
  /\ [](\A sql \in SqlOuts, engine \in Engines :
          (~engine.db \/ engine.raises)
            => LET r == _exec_sqlite(sql, engine)
               IN r.status = "fail" /\ r.error = EngineErrorText(engine))
  /\ [][(SqlStep /\ last_output'.status # "ok")
          => /\ last_output'.status = "fail"
             /\ last_output'.error \in {EngineErrorText(engine) : engine \in Engines}
             /\ node_status'[current_node_id].state = "failed"
             /\ node_status'[current_node_id].last_error = last_output'.error]_vars
  /\ [][executed_queries' # executed_queries => pc' = "resolve"]_vars
  /\ [][(SqlDone /\ node_status[current_node_id].state = "failed")
          => /\ pc = "resolve" => (pc' = "continue" /\ artifacts' = artifacts)
             /\ pc = "continue" => pc' \in {"select", "end"}]_vars

\* A SQL node has failed on an engine error and the loop is at Continue?.
C28_Witness ==
  /\ pc = "continue"
  /\ SqlDone
  /\ node_status[current_node_id].state = "failed"
  /\ node_status[current_node_id].last_error = "engine error"
  /\ last_output.status = "fail"
  /\ last_output.error = "engine error"
  /\ Len(executed_queries) = 1

\* A SQL node has succeeded on a statement that is not a SELECT and declares
\* a result-prefixed produces entry.
MutationDone ==
  /\ SqlDone
  /\ node_status[current_node_id].state = "succeeded"
  /\ ~BeginsWithSelect(LastQuery)
  /\ FirstProduces(CurrentSpec, "result") # 0

ResultName == CurrentSpec.produces[FirstProduces(CurrentSpec, "result")]

\* C29 as stated: after the merge of a SQL node that succeeded on a
\* statement not beginning with SELECT, its result-prefixed produces entry
\* is absent from the store.
C29_ResultAbsentAfterMutation ==
  (MutationDone /\ pc = "continue") => ResultName \notin DOMAIN artifacts

\* C29, amended: a statement that does not begin with SELECT and runs is a
\* mutation. The engine boundary reports status ok, the engine's affected-row
\* count and no table; the node ends succeeded and its artifacts mapping
\* holds nothing but the statement text; Resolve leaves the store's entry
\* under the result-prefixed produces name as it was: absent if no earlier
\* node wrote that name, unchanged otherwise.
C29_MutationWritesNoTable ==
  /\ [](\A sql \in SqlOuts, engine \in Engines :
          (engine.db /\ ~engine.raises /\ ~BeginsWithSelect(sql))
            => LET r == _exec_sqlite(sql, engine)
               IN r.status = "ok" /\ r.stats = {engine.rowcount} /\ r.result = {})
  /\ [][(SqlStep /\ ~BeginsWithSelect(LastQuery') /\ last_output'.status = "ok")
          => /\ node_status'[current_node_id].state = "succeeded"
             /\ last_output'.stats \subseteq {e.rowcount : e \in Engines}
             /\ \A k \in DOMAIN last_output'.artifacts.map :
                  last_output'.artifacts.map[k] = [text |-> LastQuery']]_vars
  /\ [][(MutationDone /\ pc = "resolve")
          => /\ ResultName \in DOMAIN artifacts' <=> ResultName \in DOMAIN artifacts
             /\ ResultName \in DOMAIN artifacts
                  => artifacts'[ResultName] = artifacts[ResultName]]_vars

\* An INSERT ... SELECT has run as a mutation: two rows affected, the text
\* stored, no result entry.
C29_Witness ==
  /\ pc = "continue"
  /\ MutationDone
  /\ LastQuery = InsertSelectStmt
  /\ last_output.stats = {2}
  /\ SqlA \in DOMAIN artifacts
  /\ ResultName \notin DOMAIN artifacts

\* The names a SQL node may write: its first sql-prefixed and its first
\* result-prefixed produces entry.
SqlNames(node) ==
  {node.produces[i] : i \in {FirstProduces(node, "sql"),
                             FirstProduces(node, "result")} \ {0}}

\* The names whose store entry a step creates or changes.
Written == {k \in DOMAIN artifacts' :
              k \notin DOMAIN artifacts \/ artifacts'[k] # artifacts[k]}

\* C30: what a successful SQL node writes. Its artifacts mapping and the
\* names its Resolve step writes lie within its first sql-prefixed and its
\* first result-prefixed produces entry, at most two names; after Resolve
\* the first holds the statement text and, when the statement was a SELECT,
\* the second holds the table returned.
C30_SqlWritesAtMostTwo ==
  /\ [][(SqlStep /\ last_output'.status = "ok")
          => DOMAIN last_output'.artifacts.map \subseteq SqlNames(CurrentSpec)]_vars
  /\ [][(/\ SqlDone
         /\ pc = "resolve"
         /\ node_status[current_node_id].state = "succeeded")
          => LET si == FirstProduces(CurrentSpec, "sql")
                 ri == FirstProduces(CurrentSpec, "result")
             IN /\ Written \subseteq SqlNames(CurrentSpec)
                /\ Cardinality(Written) <= 2
                /\ si # 0 => /\ CurrentSpec.produces[si] \in DOMAIN artifacts'
                             /\ artifacts'[CurrentSpec.produces[si]]
                                  = [text |-> LastQuery]
                /\ (ri # 0 /\ BeginsWithSelect(LastQuery))
                     => /\ CurrentSpec.produces[ri] \in DOMAIN artifacts'
                        /\ artifacts'[CurrentSpec.produces[ri]]
                             \in {[columns |-> <<"c">>, rows |-> e.rows] :
                                    e \in Engines}]_vars

\* A SQL node declaring five produces entries has succeeded on a SELECT:
\* the store holds exactly the first sql and the first result entry.
C30_Witness ==
  /\ pc = "continue"
  /\ SqlDone
  /\ node_status[current_node_id].state = "succeeded"
  /\ CurrentSpec.produces = <<SummaryA, SqlA, SqlB, ResultA, ResultB>>
  /\ DOMAIN artifacts = {SqlA, ResultA}

\* The succeeded SQL nodes whose result-prefixed produces entry is the name.
ResultProducers(name) ==
  {i \in 1..Len(plan.nodes) :
     /\ Lower(plan.nodes[i].type) = "sql"
     /\ node_status[plan.nodes[i].id].state = "succeeded"
     /\ FirstProduces(plan.nodes[i], "result") # 0
     /\ plan.nodes[i].produces[FirstProduces(plan.nodes[i], "result")] = name}

\* The SQL nodes whose sql-prefixed produces entry is the name.
TextProducers(name) ==
  {i \in 1..Len(plan.nodes) :
     /\ Lower(plan.nodes[i].type) = "sql"
     /\ FirstProduces(plan.nodes[i], "sql") # 0
     /\ plan.nodes[i].produces[FirstProduces(plan.nodes[i], "sql")] = name}

\* Node i is the one SQL node that wrote the table under the name, and the
\* statement it issued is in the store under a name no other SQL node
\* writes.
WroteTable(i, name) ==
  /\ ResultProducers(name) = {i}
  /\ name \in DOMAIN artifacts
  /\ artifacts[name] \in {[columns |-> <<"c">>, rows |-> e.rows] : e \in Engines}
  /\ FirstProduces(plan.nodes[i], "sql") # 0
  /\ LET text == plan.nodes[i].produces[FirstProduces(plan.nodes[i], "sql")]
     IN /\ TextProducers(text) = {i}
        /\ text \in DOMAIN artifacts
        /\ artifacts[text] \in {[text |-> q] : q \in SqlOuts}

StatementOf(i) ==
  artifacts[plan.nodes[i].produces[FirstProduces(plan.nodes[i], "sql")]].text

\* C31: the statement forwarded to the summarization collaborator is the
\* originating statement of the required result artifact: when the call is
\* made and one SQL node wrote the table under the required name, the
\* payload's statement text is the statement that node issued.
C31_ForwardsOriginatingStatement ==
  [][(SummarizerAtExec /\ CallsCollaborator /\ pc' \in {"resolve", "raised"})
       => \A i \in 1..Len(plan.nodes) :
            WroteTable(i, analyzer_payload'.result_key)
              => analyzer_payload'.sql_query = StatementOf(i)]_vars

\* C32: the plan is immutable during execution. No step changes the node
\* specifications or the edges, so the sources of the edges into a node and
\* its requires and produces lists are the same before and after every step.
C32_PlanImmutable ==
  [][/\ plan'.nodes = plan.nodes
     /\ plan'.edges = plan.edges
     /\ \A i \in 1..Len(plan.nodes) :
          /\ Sources(plan.nodes[i].id)' = Sources(plan.nodes[i].id)
          /\ plan'.nodes[i].requires = plan.nodes[i].requires
          /\ plan'.nodes[i].produces = plan.nodes[i].produces]_vars

\* A run over a plan with an edge has gone through two full cycles and
\* ended.
C32_Witness ==
  /\ pc = "end"
  /\ total_attempts >= 2
  /\ \E e \in plan.edges :
       /\ e[1] \in NodeIds /\ node_status[e[1]].state = "succeeded"
       /\ e[2] \in NodeIds /\ node_status[e[2]].state = "succeeded"

\* The ids of the plan's nodes.
DeclaredIds == {plan.nodes[i].id : i \in 1..Len(plan.nodes)}

\* C33: readiness evaluation has no side effects. The two steps that call
\* the Readiness Resolver leave the status table, the store, the counters
\* and the statement log unchanged (Select leaves the issue list unchanged
\* too, Continue? at most appends its own issue); the status table holds
\* the plan's node ids and no other, so an edge source that is not a node is
\* read as pending on every evaluation and never inserted.
C33_ReadinessHasNoSideEffects ==
  /\ [][(pc = "select" \/ pc = "continue")
          => /\ UNCHANGED <<node_status, artifacts, total_attempts,
                            executed_queries, plan, last_output>>
             /\ pc = "select" => issues' = issues
             /\ pc = "continue"
                  => \/ issues' = issues
                     \/ \E r \in {"max_attempts_exceeded",
                                  "execution_stalled_due_to_failures"} :
                          issues' = Append(issues, r)]_vars
  /\ [](NodeIds = DeclaredIds)
  /\ [](\A e \in plan.edges :
          e[1] \notin DeclaredIds
            => /\ StateOf(e[1]) = "pending"
               /\ e[2] \notin ReturnedIds(Runnable))

\* The resolver has been called at Select and at Continue? over a plan with
\* an edge from an id that is no node: one node has run, the id is still not
\* in the status table and the edge's destination still waits.
C33_Witness ==
  /\ pc = "end"
  /\ total_attempts = 1
  /\ \E e \in plan.edges :
       /\ e[1] \notin DeclaredIds
       /\ e[1] \notin NodeIds
       /\ node_status[e[2]].state = "pending"
       /\ e[2] # plan.nodes[1].id

Stalled ==
  \E k \in 1..Len(issues) : issues[k] = "execution_stalled_due_to_failures"

\* C34 as stated: whenever execution_stalled_due_to_failures is recorded at
\* the end, some node of the plan is failed.
C34_StallImpliesFailure ==
  (pc = "end" /\ Stalled) => \E id \in NodeIds : node_status[id].state = "failed"

\* C34, amended: whenever execution_stalled_due_to_failures is recorded at
\* the end, the cap was not reached, no node is ready, some node is not
\* succeeded, and every node that is not succeeded is failed or is pending
\* behind a source that is not succeeded or a requires name that is not in
\* the store.
C34_StallMeansBlocked ==
  (pc = "end" /\ Stalled)
    => /\ total_attempts < MaxAttempts
       /\ ReadyIdx = {}
       /\ \E id \in NodeIds : node_status[id].state # "succeeded"
       /\ \A i \in 1..Len(plan.nodes) :
            LET node == plan.nodes[i]
            IN node_status[node.id].state # "succeeded"
                 => \/ node_status[node.id].state = "failed"
                    \/ /\ node_status[node.id].state = "pending"
                       /\ ~SourcesSucceeded(node.id) \/ ~RequiresStored(node)

\* A run has stalled although no node failed: one node succeeded and the
\* other waits for a name that was never written.
C34_Witness ==
  /\ pc = "end"
  /\ Stalled
  /\ \A id \in NodeIds : node_status[id].state # "failed"
  /\ \E id \in NodeIds : node_status[id].state = "succeeded"
  /\ \E i \in 1..Len(plan.nodes) :
       /\ node_status[plan.nodes[i].id].state = "pending"
       /\ SourcesSucceeded(plan.nodes[i].id)
       /\ ~RequiresStored(plan.nodes[i])

\* C35: at most one issue. The issue list is empty in every state that is
\* not the end and holds at most one entry at the end; a Continue? step at
\* the cap records max_attempts_exceeded alone, also when no node is ready
\* and some node is not succeeded.
C35_AtMostOneIssue ==
  /\ [](Len(issues) <= 1)
  /\ [](pc # "end" => issues = <<>>)
  /\ [][(pc = "continue" /\ total_attempts >= MaxAttempts)
          => issues' = <<"max_attempts_exceeded">>]_vars
  /\ []((pc = "end" /\ total_attempts >= MaxAttempts)
          => issues = <<"max_attempts_exceeded">>)

\* The cap was reached in a stalled state: twenty nodes have failed, none is
\* ready, and the one issue is max_attempts_exceeded.
C35_Witness ==
  /\ pc = "end"
  /\ total_attempts = MaxAttempts
  /\ ReadyIdx = {}
  /\ \E id \in NodeIds : node_status[id].state # "succeeded"
  /\ issues = <<"max_attempts_exceeded">>

\* The names a node declares in its produces list.
Declares(node) == {node.produces[j] : j \in 1..Len(node.produces)}

\* C36: every name in the artifact store is declared in the produces list of
\* some node that is succeeded.
C36_StoredNamesDeclared ==
  \A name \in DOMAIN artifacts :
    \E i \in 1..Len(plan.nodes) :
      /\ node_status[plan.nodes[i].id].state = "succeeded"
      /\ name \in Declares(plan.nodes[i])

\* Some edge into the node comes from an id that is no node of the plan.
UnknownSource(id) ==
  \E e \in plan.edges : e[2] = id /\ e[1] \notin DeclaredIds

\* C37: an edge from an unknown source blocks its destination for good. The
\* unknown id is read as pending in every state; the destination is never
\* selected and stays pending with no attempt; when no node is ready at
\* Continue? below the cap the run ends there with
\* execution_stalled_due_to_failures, and an ended run below the cap over
\* such a plan carries exactly that issue.
C37_UnknownSourceBlocks ==
  /\ [](\A e \in plan.edges :
          e[1] \notin DeclaredIds => StateOf(e[1]) = "pending")
  /\ [](\A id \in NodeIds :
          UnknownSource(id) => /\ current_node_id # id
                               /\ node_status[id].state = "pending"
                               /\ node_status[id].attempts = 0)
  /\ [][(/\ pc = "continue"
         /\ \E id \in NodeIds : UnknownSource(id)
         /\ total_attempts < MaxAttempts
         /\ ReadyIdx = {})
          => /\ pc' = "end"
             /\ issues' = Append(issues, "execution_stalled_due_to_failures")]_vars
  /\ []((/\ pc = "end"
         /\ \E id \in NodeIds : UnknownSource(id)
         /\ total_attempts < MaxAttempts)
          => issues = <<"execution_stalled_due_to_failures">>)

\* The run has ended stalled: the node behind the unknown source is pending,
\* the other node has succeeded, nothing failed.
C37_Witness ==
  /\ pc = "end"
  /\ issues = <<"execution_stalled_due_to_failures">>
  /\ \E id \in NodeIds : UnknownSource(id) /\ Sources(id) \cap DeclaredIds = {}
  /\ \E id \in NodeIds : ~UnknownSource(id) /\ node_status[id].state = "succeeded"
  /\ \A id \in NodeIds : node_status[id].state # "failed"

\* The SQL nodes that have left the pending state.
SqlStarted ==
  {i \in 1..Len(plan.nodes) :
     /\ Lower(plan.nodes[i].type) = "sql"
     /\ node_status[plan.nodes[i].id].state # "pending"}

\* C38: the statement log. Every step keeps the log as a prefix of the new
\* log; the executor step of a SQL node adds exactly one entry, that of any
\* other node none; outside the executor the length of the log is the number
\* of SQL nodes that have left the pending state.
C38_LogCountsSqlNodes ==
  /\ [][/\ Len(executed_queries') >= Len(executed_queries)
        /\ SubSeq(executed_queries', 1, Len(executed_queries)) = executed_queries
        /\ SqlStep => Len(executed_queries') = Len(executed_queries) + 1
        /\ ~SqlStep => executed_queries' = executed_queries]_vars
  /\ [](pc # "exec" => Len(executed_queries) = Cardinality(SqlStarted))

====
